---- MODULE Spec2Model ----
(***************************************************************************)
(* Model of the linear-algebra refresher: LinearSystem (linsys.py) over    *)
(* Plane (plane.py) and Line (line.py) equations whose coefficients are    *)
(* Decimal numbers held in Vector objects (vector.py).                     *)
(*                                                                         *)
(* Decimal numbers.  Every number the model draws or computes is a         *)
(* multiple of 10^-Resolution with far fewer than 30 significant digits,   *)
(* so the Decimal context (prec = 30) never rounds a sum or a product of   *)
(* the model.  A number is the record [u, t] that stands for               *)
(*        u + t * 10^-Resolution                                           *)
(* with t small; two records are equal exactly when the numbers are.       *)
(***************************************************************************)
EXTENDS Integers, Sequences, FiniteSets, TLC

\* ------------------------------------------------------------------ bounds
\* Numbers are multiples of 10^-Resolution.
Resolution == 11
\* Row operations performed on one constructed system.
MaxOps == 2
\* Largest whole coordinate of the equations compared by __eq__.
MaxCoord == 1
\* Largest coefficient handed to the row operations.
MaxCoefficient == 1

\* ------------------------------------------------------- program constants
\* eps = 1e-10 of MyDecimal.is_near_zero, as the exponent of 10^-EpsExp.
EpsExp == 10
\* self.dimension of a Plane and of a Line.
PlaneDim == 3
LineDim == 2

\* ---------------------------------------------------------------- Decimal
RECURSIVE Pow10(_)
Pow10(n) == IF n <= 0 THEN 1 ELSE 10 * Pow10(n - 1)

Abs(x) == IF x < 0 THEN -x ELSE x

D(u) == [u |-> u, t |-> 0]
Tiny(t) == [u |-> 0, t |-> t]
Zero == D(0)

\* Decimal.__add__ : exact on the model's numbers.
DecAdd(a, b) == [u |-> a.u + b.u, t |-> a.t + b.t]

\* Decimal.__mul__ : exact when one factor is whole (the t*t term, a multiple
\* of 10^-(2*Resolution), is zero); the coefficients of the row operations
\* are whole numbers.
DecMul(a, b) == [u |-> a.u * b.u, t |-> a.u * b.t + a.t * b.u]

\* The number of 10^-Resolution units in eps, rounded down.  The float 1e-10
\* lies strictly between 10^-10 and the next multiple of 10^-Resolution, so
\* abs(x) < eps holds for a multiple x of 10^-Resolution iff
\* abs(x) <= 10^-10.
EpsUnits == Pow10(Resolution - EpsExp)

\* MyDecimal.is_near_zero
is_near_zero(x) == x.u = 0 /\ Abs(x.t) <= EpsUnits

\* ----------------------------------------------------------------- Vector
\* Vector.times_scalar : Decimal(scalar) * x for every coordinate.
times_scalar(v, scalar) == [i \in 1..Len(v) |-> DecMul(scalar, v[i])]

Min(a, b) == IF a < b THEN a ELSE b

\* Vector.plus : zip stops at the shorter operand.
plus(v, w) == [i \in 1..Min(Len(v), Len(w)) |-> DecAdd(v[i], w[i])]

\* Plane.first_nonzero_index / Line.first_nonzero_index, 0-based;
\* -1 stands for the raised NO_NONZERO_ELTS_FOUND_MSG exception.
first_nonzero_index(coords) ==
  IF \E k \in 1..Len(coords) : ~is_near_zero(coords[k])
  THEN (CHOOSE k \in 1..Len(coords) :
          /\ ~is_near_zero(coords[k])
          /\ \A m \in 1..(k - 1) : is_near_zero(coords[m])) - 1
  ELSE -1

\* ------------------------------------------------------ Plane and Line
\* Plane.set_basepoint / Line.set_basepoint : "None" when no coefficient is
\* found, otherwise the basepoint has constant_term / coefficient at `index`
\* and zeros elsewhere; the quotient is kept as the pair (num, den).
set_basepoint(n, c) ==
  IF first_nonzero_index(n) < 0
  THEN [defined |-> FALSE, index |-> 0, num |-> Zero, den |-> D(1)]
  ELSE [defined |-> TRUE, index |-> first_nonzero_index(n),
        num |-> c, den |-> n[first_nonzero_index(n) + 1]]

\* Plane.__init__ : dimension is 3 whatever the length of the normal vector.
Plane(normal_vector, constant_term) ==
  [cls |-> "Plane", dimension |-> PlaneDim,
   normal_vector |-> normal_vector, constant_term |-> constant_term,
   basepoint |-> set_basepoint(normal_vector, constant_term)]

\* Line.__init__
Line(normal_vector, constant_term) ==
  [cls |-> "Line", dimension |-> LineDim,
   normal_vector |-> normal_vector, constant_term |-> constant_term,
   basepoint |-> set_basepoint(normal_vector, constant_term)]

\* Placeholder for "no equation" (a call that raised before producing one).
NoEq ==
  [cls |-> "None", dimension |-> 0, normal_vector |-> <<>>,
   constant_term |-> Zero,
   basepoint |-> [defined |-> FALSE, index |-> 0, num |-> Zero, den |-> D(1)]]

\* ----------------------------------------------------------- LinearSystem
\* A LinearSystem object: self.planes and self.dimension.
NoSystem == [planes |-> <<>>, dimension |-> 0]

\* Python list indexing: 0-based, negative indices count from the end.
ValidIndex(n, i) == -n <= i /\ i < n
Pos(n, i) == IF i >= 0 THEN i + 1 ELSE n + i + 1

\* LinearSystem.__init__ : planes[0] raises IndexError on an empty list; a
\* failed assert becomes Exception(PLANES_SAME_DIM_MSG); nothing is assigned
\* before the checks have passed.
LinearSystemInit(eqs) ==
  IF Len(eqs) = 0
  THEN [exc |-> "IndexError", sys |-> NoSystem]
  ELSE IF \E k \in 1..Len(eqs) : eqs[k].dimension # eqs[1].dimension
  THEN [exc |-> "PLANES_SAME_DIM_MSG", sys |-> NoSystem]
  ELSE [exc |-> "none",
        sys |-> [planes |-> eqs, dimension |-> eqs[1].dimension]]

\* LinearSystem.__len__
SysLen(s) == Len(s.planes)

\* A __getitem__ that wraps every index around the number of rows instead
\* of raising for an index out of range.
GetItemWrapping(s, i) ==
  IF SysLen(s) = 0
  THEN [exc |-> "IndexError", val |-> NoEq]
  ELSE [exc |-> "none", val |-> s.planes[(i % SysLen(s)) + 1]]

\* LinearSystem.__getitem__
GetItem(s, i) ==
  IF ValidIndex(SysLen(s), i)
  THEN [exc |-> "none", val |-> s.planes[Pos(SysLen(s), i)]]
  ELSE [exc |-> "IndexError", val |-> NoEq]

\* A __setitem__ that stores before it checks the dimension.
SetItemStoreFirst(s, i, x) ==
  IF ~ValidIndex(SysLen(s), i)
  THEN [exc |-> "IndexError", sys |-> s]
  ELSE [exc |-> IF x.dimension # s.dimension
                THEN "PLANES_SAME_DIM_MSG" ELSE "none",
        sys |-> [s EXCEPT !.planes[Pos(SysLen(s), i)] = x]]

\* LinearSystem.__setitem__ : the assert comes first, then the list store.
SetItem(s, i, x) ==
  IF x.dimension # s.dimension
  THEN [exc |-> "PLANES_SAME_DIM_MSG", sys |-> s]
  ELSE IF ~ValidIndex(SysLen(s), i)
  THEN [exc |-> "IndexError", sys |-> s]
  ELSE [exc |-> "none",
        sys |-> [s EXCEPT !.planes[Pos(SysLen(s), i)] = x]]

\* A swap written as two assignments without the tuple: row1 is overwritten
\* before it is read.
swap_rows_sequential(s, row1, row2) ==
  LET a == GetItem(s, row2)
      s1 == IF a.exc = "none" THEN SetItem(s, row1, a.val)
            ELSE [exc |-> a.exc, sys |-> s]
      b == GetItem(s1.sys, row1)
  IN  IF s1.exc # "none" THEN s1
      ELSE IF b.exc # "none" THEN [exc |-> b.exc, sys |-> s1.sys]
      ELSE SetItem(s1.sys, row2, b.val)

\* LinearSystem.swap_rows : self[row1], self[row2] = self[row2], self[row1].
\* Both reads happen before the first store.
swap_rows(s, row1, row2) ==
  LET a == GetItem(s, row2)
      b == GetItem(s, row1)
      s1 == SetItem(s, row1, a.val)
  IN  IF a.exc # "none" THEN [exc |-> a.exc, sys |-> s]
      ELSE IF b.exc # "none" THEN [exc |-> b.exc, sys |-> s]
      ELSE IF s1.exc # "none" THEN s1
      ELSE SetItem(s1.sys, row2, b.val)

\* LinearSystem.multiply_coefficient_and_row : the new row is always a Plane.
multiply_coefficient_and_row(s, coefficient, row) ==
  LET r == GetItem(s, row)
      new_normal_vector == times_scalar(r.val.normal_vector, coefficient)
      new_constant_term == DecMul(r.val.constant_term, coefficient)
  IN  IF r.exc # "none" THEN [exc |-> r.exc, sys |-> s]
      ELSE SetItem(s, row, Plane(new_normal_vector, new_constant_term))

\* An add-multiple that scales the target row instead of the source row.
add_multiple_scaling_target(s, coefficient, from_here, to_here) ==
  LET f == GetItem(s, from_here)
      t == GetItem(s, to_here)
      new_normal_vector ==
        plus(times_scalar(t.val.normal_vector, coefficient),
             f.val.normal_vector)
      new_constant_term ==
        DecAdd(DecMul(t.val.constant_term, coefficient), f.val.constant_term)
  IN  IF f.exc # "none" THEN [exc |-> f.exc, sys |-> s]
      ELSE IF t.exc # "none" THEN [exc |-> t.exc, sys |-> s]
      ELSE SetItem(s, to_here, Plane(new_normal_vector, new_constant_term))

\* LinearSystem.add_multiple_times_row_to_row
add_multiple_times_row_to_row(s, coefficient, from_here, to_here) ==
  LET f == GetItem(s, from_here)
      t == GetItem(s, to_here)
      new_normal_vector ==
        plus(times_scalar(f.val.normal_vector, coefficient),
             t.val.normal_vector)
      new_constant_term ==
        DecAdd(DecMul(f.val.constant_term, coefficient), t.val.constant_term)
  IN  IF f.exc # "none" THEN [exc |-> f.exc, sys |-> s]
      ELSE IF t.exc # "none" THEN [exc |-> t.exc, sys |-> s]
      ELSE SetItem(s, to_here, Plane(new_normal_vector, new_constant_term))

\* `system[i][j]` : the equation object is subscripted.  Neither Plane nor
\* Line defines __getitem__, so the read raises TypeError for every equation.
EquationGetItem(eq, j) == [exc |-> "TypeError", val |-> Zero]

\* LinearSystem.compute_triangular_form : deepcopy, then the loops.  With at
\* least one row and one variable the first statement of the inner loop
\* (i = 0, j = 0) reads system[0][0]; that read raises, which ends the call
\* before any row of the copy is changed and before anything is returned.
compute_triangular_form(s) ==
  LET system == s
      num_equations == SysLen(system)
      num_variables == system.dimension
      c == EquationGetItem(GetItem(system, 0).val, 0)
  IN  IF num_equations = 0 \/ ~(0 < num_variables)
      THEN [exc |-> "none", sys |-> system]
      ELSE [exc |-> c.exc, sys |-> NoSystem]

\* LinearSystem.compute_rref : starts with compute_triangular_form, whose
\* exception propagates.  A triangular form is returned only for a system
\* without rows, for which range(num_equations) is empty and tf is returned
\* as it is.
compute_rref(s) ==
  LET tf == compute_triangular_form(s)
  IN  IF tf.exc # "none" THEN [exc |-> tf.exc, sys |-> NoSystem]
      ELSE tf

\* LinearSystem.indices_of_first_nonzero_terms_in_each_row : -1 for a row
\* whose first_nonzero_index raises NO_NONZERO_ELTS_FOUND_MSG (caught, the
\* loop continues); the rows are only read.
indices_of_first_nonzero_terms_in_each_row(s) ==
  [exc |-> "none", sys |-> s,
   indices |-> [i \in 1..SysLen(s) |->
                  first_nonzero_index(s.planes[i].normal_vector)]]

\* LinearSystem.swap_with_row_below : with no row below `row` the loop body
\* does not run and False is returned; otherwise its first statement reads
\* self[row+1][col], which raises before any swap.
swap_with_row_below(s, row, col) ==
  LET num_equations == SysLen(s)
      k == row + 1
      r == GetItem(s, k)
      coefficient == EquationGetItem(r.val, col)
  IN  IF ~(k < num_equations)
      THEN [exc |-> "none", sys |-> s, ret |-> "False"]
      ELSE IF r.exc # "none"
      THEN [exc |-> r.exc, sys |-> s, ret |-> "None"]
      ELSE [exc |-> coefficient.exc, sys |-> s, ret |-> "None"]

\* LinearSystem.clear_coefficients_below : beta = self[row][col] is read
\* before the loop; the read raises, so no row is combined and nothing is
\* divided.
clear_coefficients_below(s, row, col) ==
  LET r == GetItem(s, row)
      beta == EquationGetItem(r.val, col)
  IN  IF r.exc # "none"
      THEN [exc |-> r.exc, sys |-> s]
      ELSE [exc |-> beta.exc, sys |-> s]

\* ------------------------------------------- equality of Plane and of Line
\* The equations compared are drawn from EqInputs below: a normal vector is
\* either whole (every t = 0) or tiny (every u = 0), with small entries.

\* Vector.is_zero : magnitude() < 1e-10, that is sum of squares < 1e-20.
RECURSIVE SumSq(_, _)
SumSq(v, i) == IF i = 0 THEN 0 ELSE v[i].t * v[i].t + SumSq(v, i - 1)

is_zero(v) ==
  /\ \A i \in 1..Len(v) : v[i].u = 0
  /\ SumSq(v, Len(v)) < EpsUnits * EpsUnits

\* The entries of a whole or tiny vector as integers (its direction).
Direction(v) ==
  [i \in 1..Len(v) |-> IF \A m \in 1..Len(v) : v[m].t = 0
                       THEN v[i].u ELSE v[i].t]

\* Vector.is_parallel_to : is_zero of either, or angle_with == 0 or == pi.
\* angle_with rounds the cosine of the normalized vectors to 6 places; for
\* the small directions drawn here two non-parallel vectors have a cosine
\* below 0.99, so the angle is 0 or pi exactly when every 2x2 minor of the
\* two directions vanishes.
is_parallel_to(v, w) ==
  \/ is_zero(v)
  \/ is_zero(w)
  \/ \A i, m \in 1..Min(Len(v), Len(w)) :
       Direction(v)[i] * Direction(w)[m] = Direction(v)[m] * Direction(w)[i]

\* Plane.__eq__ / Line.__eq__ : "True", "False", or "AttributeError" when
\* self.basepoint.minus(plane2.basepoint) meets a basepoint that is None.
\* With both basepoints defined, v_connect . normal_vector is
\*    k1/n1[i] * n1[i] - k2/n2[j] * n1[j]
\* (i, j the basepoints' indices), which for whole numbers is within 1e-10 of
\* zero exactly when k1 * n2[j] = k2 * n1[j].
eq(p, q) ==
  IF ~is_parallel_to(p.normal_vector, q.normal_vector) THEN "False"
  ELSE IF ~p.basepoint.defined \/ ~q.basepoint.defined THEN "AttributeError"
  ELSE IF DecMul(p.basepoint.num, q.basepoint.den)
            = DecMul(q.basepoint.num,
                     p.normal_vector[q.basepoint.index + 1])
       THEN "True" ELSE "False"

\* ------------------------------------------------------------------ inputs
\* The equations of the test cases of linsys.py, an all-zero Plane(), a
\* plane whose first coefficient is near zero without being zero, and lines.
p0 == Plane(<<D(1), D(1), D(1)>>, D(1))
p1 == Plane(<<D(0), D(1), D(0)>>, D(2))
p2 == Plane(<<D(1), D(1), D(-1)>>, D(3))
pZero == Plane(<<Zero, Zero, Zero>>, Zero)
pTiny == Plane(<<Tiny(5), D(1), Tiny(20)>>, D(1))
l0 == Line(<<D(1), D(1)>>, D(1))
l1 == Line(<<D(0), D(1)>>, D(2))

\* The lists handed to LinearSystem(...): planes only, lines only, mixed,
\* empty.
Fixtures ==
  { <<p0, p1>>, <<p0, p1, p2>>, <<pZero, p0>>, <<pTiny, p1>>, <<p2>>,
    <<l0, l1>>, <<p0, l0>>, <<l1, p1>>, <<>> }

\* Equations assigned to a row position with s[i] = x.
Assignable == {p2, l0}

Coefficients == {D(c) : c \in -1..MaxCoefficient}

\* Row indices handed to the operations on a system of n rows: the valid
\* positions 0..n-1, -1 (Python's last row) and n (out of range).
RowArgs(n) == -1..n

\* ------------------------------------------------------------------- state
VARIABLES
  planes,     \* self.planes of the system under test
  dimension,  \* self.dimension of the system under test
  pc,         \* "new" before LinearSystem(...), then "ready" or "failed"
  call,       \* the last call and its arguments
  before,     \* self.planes when the last call started
  outcome,    \* "none", or the exception the last call raised
  returned,   \* the planes of the system returned by the last call
  answer,     \* the value returned by the last __eq__
  ops,        \* row operations performed so far
  indices,    \* the list returned by the last pivot-index call
  item        \* the equation returned by the last s[i]

vars ==
  <<planes, dimension, pc, call, before, outcome, returned, answer, ops,
    indices, item>>

Self == [planes |-> planes, dimension |-> dimension]

Call(op, c, i, j, x, y) ==
  [op |-> op, c |-> c, i |-> i, j |-> j, x |-> x, y |-> y]

NoCall == Call("none", Zero, 0, 0, NoEq, NoEq)

Init ==
  /\ planes = <<>>
  /\ dimension = 0
  /\ pc = "new"
  /\ call = NoCall
  /\ before = <<>>
  /\ outcome = "none"
  /\ returned = <<>>
  /\ answer = "None"
  /\ ops = 0
  /\ indices = <<>>
  /\ item = NoEq

\* s = LinearSystem(eqs)
Construct(eqs) ==
  /\ pc = "new"
  /\ LET r == LinearSystemInit(eqs)
     IN  /\ planes' = r.sys.planes
         /\ dimension' = r.sys.dimension
         /\ outcome' = r.exc
         /\ pc' = IF r.exc = "none" THEN "ready" ELSE "failed"
  /\ call' = Call("LinearSystem", Zero, Len(eqs), 0, NoEq, NoEq)
  /\ before' = eqs
  /\ UNCHANGED <<returned, answer, ops, indices, item>>

\* The effect of a method that mutates the system in place.
Mutate(r, c) ==
  /\ planes' = r.sys.planes
  /\ dimension' = r.sys.dimension
  /\ outcome' = r.exc
  /\ call' = c
  /\ before' = planes
  /\ ops' = ops + 1
  /\ UNCHANGED <<pc, returned, answer, indices, item>>

\* s[i] = x
AssignRow(i, x) ==
  /\ pc = "ready" /\ ops < MaxOps
  /\ Mutate(SetItem(Self, i, x), Call("__setitem__", Zero, i, 0, x, NoEq))

\* s.swap_rows(i, j)
SwapRows(i, j) ==
  /\ pc = "ready" /\ ops < MaxOps
  /\ Mutate(swap_rows(Self, i, j), Call("swap_rows", Zero, i, j, NoEq, NoEq))

\* s.multiply_coefficient_and_row(c, i)
MultiplyRow(c, i) ==
  /\ pc = "ready" /\ ops < MaxOps
  /\ Mutate(multiply_coefficient_and_row(Self, c, i),
            Call("multiply_coefficient_and_row", c, i, 0, NoEq, NoEq))

\* s.add_multiple_times_row_to_row(c, i, j)
AddMultiple(c, i, j) ==
  /\ pc = "ready" /\ ops < MaxOps
  /\ Mutate(add_multiple_times_row_to_row(Self, c, i, j),
            Call("add_multiple_times_row_to_row", c, i, j, NoEq, NoEq))

\* The effect of a method that returns a new system.
Reduce(r, name) ==
  /\ returned' = r.sys.planes
  /\ outcome' = r.exc
  /\ call' = Call(name, Zero, 0, 0, NoEq, NoEq)
  /\ before' = planes
  /\ UNCHANGED <<planes, dimension, pc, answer, ops, indices, item>>

\* t = s.compute_triangular_form()
ComputeTriangularForm ==
  /\ pc = "ready"
  /\ Reduce(compute_triangular_form(Self), "compute_triangular_form")

\* r = s.compute_rref()
ComputeRref ==
  /\ pc = "ready"
  /\ Reduce(compute_rref(Self), "compute_rref")

Next ==
  \/ \E eqs \in Fixtures : Construct(eqs)
  \/ \E i \in RowArgs(Len(planes)), x \in Assignable : AssignRow(i, x)
  \/ \E i, j \in RowArgs(Len(planes)) : SwapRows(i, j)
  \/ \E c \in Coefficients, i \in RowArgs(Len(planes)) : MultiplyRow(c, i)
  \/ \E c \in Coefficients, i, j \in RowArgs(Len(planes)) :
       AddMultiple(c, i, j)
  \/ ComputeTriangularForm
  \/ ComputeRref

Spec == Init /\ [][Next]_vars

\* ------------------------------------------------ comparing two equations
\* Whole coordinates -1..MaxCoord, and two tiny normal vectors: one whose
\* entries are near zero while its magnitude is not below 1e-10, one whose
\* magnitude is below 1e-10 without being the zero vector.
EqCoords == {D(c) : c \in -1..MaxCoord}
EqConstants == {D(c) : c \in 0..MaxCoord}
TinyDirections == { <<EpsUnits - 1, EpsUnits - 1, 0>>,
                    <<EpsUnits \div 2, 0, 0>> }
EqVectors(dim) ==
  [1..dim -> EqCoords]
    \cup { [i \in 1..dim |-> Tiny(d[i])] : d \in TinyDirections }
EqPlanes == { Plane(v, k) : v \in EqVectors(PlaneDim), k \in EqConstants }
EqLines == { Line(v, k) : v \in EqVectors(LineDim), k \in EqConstants }

\* p == q
Compare(p, q) ==
  /\ call' = Call("__eq__", Zero, 0, 0, p, q)
  /\ answer' = IF eq(p, q) = "AttributeError" THEN "None" ELSE eq(p, q)
  /\ outcome' = IF eq(p, q) = "AttributeError" THEN "AttributeError"
                ELSE "none"
  /\ UNCHANGED <<planes, dimension, pc, before, returned, ops, indices, item>>

ComparePlanes == call.op = "none" /\ \E p, q \in EqPlanes : Compare(p, q)

CompareLines == call.op = "none" /\ \E p, q \in EqLines : Compare(p, q)

NextEq == ComparePlanes \/ CompareLines

SpecEq == Init /\ [][NextEq]_vars

\* ------------------------------------- single calls on a fresh system
\* Rows whose coefficients sit at the near-zero threshold: exactly 10^-10,
\* one unit above it and one unit below it.
pEdge == Plane(<<Tiny(EpsUnits), Tiny(EpsUnits + 1), D(1)>>, D(1))
pNear == Plane(<<Tiny(EpsUnits - 1), Zero, Tiny(-EpsUnits)>>, D(1))
lEdge == Line(<<Zero, Tiny(EpsUnits)>>, D(1))

CallFixtures ==
  Fixtures \cup { <<pEdge, pNear>>, <<pZero, pTiny, p0>>, <<lEdge, l0>> }

\* Row indices from one below -n to n: the positions 0..n-1, Python's
\* negative positions -n..-1, and one index out of range on either side.
WideArgs(n) == (-n - 1)..n

\* Column indices 0..d, the last one out of range.
ColArgs(d) == 0..d

\* s[i]
ReadRow(i) ==
  /\ pc = "ready"
  /\ item' = GetItem(Self, i).val
  /\ outcome' = GetItem(Self, i).exc
  /\ call' = Call("__getitem__", Zero, i, 0, NoEq, NoEq)
  /\ before' = planes
  /\ UNCHANGED <<planes, dimension, pc, returned, answer, ops, indices>>

\* s.indices_of_first_nonzero_terms_in_each_row()
IndicesOfFirstNonzero ==
  /\ pc = "ready"
  /\ LET r == indices_of_first_nonzero_terms_in_each_row(Self)
     IN  /\ indices' = r.indices
         /\ planes' = r.sys.planes
         /\ dimension' = r.sys.dimension
         /\ outcome' = r.exc
  /\ call' = Call("indices_of_first_nonzero_terms_in_each_row",
                  Zero, 0, 0, NoEq, NoEq)
  /\ before' = planes
  /\ UNCHANGED <<pc, returned, answer, ops, item>>

\* s.swap_with_row_below(row, col)
SwapWithRowBelow(row, col) ==
  /\ pc = "ready"
  /\ LET r == swap_with_row_below(Self, row, col)
     IN  /\ planes' = r.sys.planes
         /\ dimension' = r.sys.dimension
         /\ outcome' = r.exc
         /\ answer' = r.ret
  /\ call' = Call("swap_with_row_below", Zero, row, col, NoEq, NoEq)
  /\ before' = planes
  /\ UNCHANGED <<pc, returned, ops, indices, item>>

\* s.clear_coefficients_below(row, col)
ClearCoefficientsBelow(row, col) ==
  /\ pc = "ready"
  /\ LET r == clear_coefficients_below(Self, row, col)
     IN  /\ planes' = r.sys.planes
         /\ dimension' = r.sys.dimension
         /\ outcome' = r.exc
  /\ call' = Call("clear_coefficients_below", Zero, row, col, NoEq, NoEq)
  /\ before' = planes
  /\ UNCHANGED <<pc, returned, answer, ops, indices, item>>

\* The system has just been constructed and no method was called on it yet.
Fresh == pc = "ready" /\ call.op = "LinearSystem"

\* One call of one method on a freshly constructed system.
NextCall ==
  \/ \E eqs \in CallFixtures : Construct(eqs)
  \/ Fresh /\ \E i \in WideArgs(Len(planes)), x \in Assignable :
                AssignRow(i, x)
  \/ Fresh /\ \E i, j \in WideArgs(Len(planes)) : SwapRows(i, j)
  \/ Fresh /\ \E c \in Coefficients, i \in WideArgs(Len(planes)) :
                MultiplyRow(c, i)
  \/ Fresh /\ \E c \in Coefficients, i, j \in WideArgs(Len(planes)) :
                AddMultiple(c, i, j)
  \/ Fresh /\ \E i \in WideArgs(Len(planes)) : ReadRow(i)
  \/ Fresh /\ IndicesOfFirstNonzero
  \/ Fresh /\ \E row \in WideArgs(Len(planes)), col \in ColArgs(dimension) :
                SwapWithRowBelow(row, col)
  \/ Fresh /\ \E row \in WideArgs(Len(planes)), col \in ColArgs(dimension) :
                ClearCoefficientsBelow(row, col)

SpecCall == Init /\ [][NextCall]_vars

\* ================================================================== claims
InRange(i) == 0 <= i /\ i < Len(before)

\* The pivot column of a row (0-based), -1 without one.
Pivot(row) == first_nonzero_index(row.normal_vector)

IsReduceCall(name) == call.op = name

\* C1: compute_triangular_form returns a system in which, for every row i
\* with its pivot at column j, every row k > i has a near-zero coefficient at
\* column j.
C1_TriangularClearsBelowPivot ==
  IsReduceCall("compute_triangular_form") =>
    /\ outcome = "none"
    /\ \A i \in 1..Len(returned) :
         Pivot(returned[i]) >= 0 =>
           \A k \in (i + 1)..Len(returned) :
             is_near_zero(returned[k].normal_vector[Pivot(returned[i]) + 1])

\* C2: compute_rref returns a system in which every pivot column has exactly
\* one row with coefficient 1 and a near-zero coefficient in every other row.
C2_RrefPivotColumns ==
  IsReduceCall("compute_rref") =>
    /\ outcome = "none"
    /\ \A i \in 1..Len(returned) :
         Pivot(returned[i]) >= 0 =>
           \E k \in 1..Len(returned) :
             /\ returned[k].normal_vector[Pivot(returned[i]) + 1] = D(1)
             /\ \A m \in 1..Len(returned) :
                  m # k =>
                    is_near_zero(
                      returned[m].normal_vector[Pivot(returned[i]) + 1])

\* C3: compute_triangular_form and compute_rref return a system, a copy
\* independent of the original, and the original holds the same rows in the
\* same order as before the call.
C3_ReduceReturnsCopy ==
  (IsReduceCall("compute_triangular_form") \/ IsReduceCall("compute_rref")) =>
    /\ outcome = "none"
    /\ Len(returned) = Len(before)
    /\ planes = before

\* C4: in the system returned by compute_triangular_form the pivot column
\* strictly increases from one row with a pivot to the next, and every row
\* without a pivot comes after every row with one.
C4_TriangularEchelonOrder ==
  IsReduceCall("compute_triangular_form") =>
    /\ outcome = "none"
    /\ \A i, k \in 1..Len(returned) :
         i < k =>
           /\ Pivot(returned[k]) >= 0 => Pivot(returned[i]) >= 0
           /\ Pivot(returned[k]) >= 0 =>
                Pivot(returned[i]) < Pivot(returned[k])

\* C5: compute_rref is idempotent: every row of compute_rref(compute_rref(S))
\* equals, by __eq__, the row of compute_rref(S) at the same position.
C5_RrefIdempotent ==
  IsReduceCall("compute_rref") =>
    /\ outcome = "none"
    /\ LET again ==
             compute_rref([planes |-> returned, dimension |-> dimension])
       IN  /\ again.exc = "none"
           /\ Len(again.sys.planes) = Len(returned)
           /\ \A i \in 1..Len(returned) :
                eq(again.sys.planes[i], returned[i]) = "True"

\* The rows of s with positions a and b (1-based) exchanged.
Exchanged(s, a, b) ==
  [k \in 1..Len(s) |-> IF k = a THEN s[b] ELSE IF k = b THEN s[a] ELSE s[k]]

\* C6: swap_rows(i, j) with valid i, j (i = j included) exchanges exactly the
\* rows at i and j, and a second swap_rows(i, j) or swap_rows(j, i) right
\* after it restores the row order the first one found.
C6_SwapRows ==
  [][ (call'.op = "swap_rows" /\ ops' = ops + 1
         /\ call'.i \in 0..(Len(planes) - 1)
         /\ call'.j \in 0..(Len(planes) - 1)) =>
        /\ outcome' = "none"
        /\ planes' = Exchanged(planes, call'.i + 1, call'.j + 1)
        /\ (call.op = "swap_rows" /\ outcome = "none"
              /\ {call.i, call.j} = {call'.i, call'.j}) => planes' = before
    ]_vars

\* C6 witness: a swap of two different rows that changed the system and gave
\* back the rows of a constructed list after an earlier operation.
C6_Witness ==
  /\ call.op = "swap_rows" /\ outcome = "none"
  /\ InRange(call.i) /\ InRange(call.j) /\ call.i # call.j
  /\ planes # before
  /\ ops = 2
  /\ planes \in Fixtures

RowOps ==
  {"swap_rows", "multiply_coefficient_and_row",
   "add_multiple_times_row_to_row"}

\* C7: on a constructed system of Line or of Plane equations every swap_rows,
\* multiply_coefficient_and_row and add_multiple_times_row_to_row call with
\* in-range row indices succeeds, keeps the number of rows, and leaves every
\* row with the system's dimension.
C7_RowOpsSucceed ==
  (call.op \in RowOps /\ InRange(call.i) /\ InRange(call.j)) =>
    /\ outcome = "none"
    /\ Len(planes) = Len(before)
    /\ \A k \in 1..Len(planes) : planes[k].dimension = dimension

\* C8: LinearSystem(...) over equations of unequal dimension raises the
\* dimension-mismatch error; assigning to a row position an equation whose
\* dimension differs from the system's raises it too, and a call on a
\* constructed system that raises it leaves rows and dimension as they were.
C8_DimensionMismatchRejected ==
  [][ /\ (call'.op = "LinearSystem"
            /\ \E k \in 1..Len(before') :
                 before'[k].dimension # before'[1].dimension) =>
           (outcome' = "PLANES_SAME_DIM_MSG" /\ pc' = "failed"
              /\ planes' = <<>>)
      /\ (call'.op = "__setitem__" /\ ops' = ops + 1
            /\ call'.x.dimension # dimension) =>
           outcome' = "PLANES_SAME_DIM_MSG"
      /\ (pc = "ready" /\ outcome' = "PLANES_SAME_DIM_MSG"
            /\ (ops' = ops + 1)) =>
           (planes' = planes /\ dimension' = dimension)
    ]_vars

\* C8 witness: an assignment of an equation of another dimension was
\* rejected.
C8_Witness ==
  /\ call.op = "__setitem__"
  /\ call.x.dimension # dimension
  /\ InRange(call.i)
  /\ outcome = "PLANES_SAME_DIM_MSG"
  /\ pc = "ready"

\* C9: add_multiple_times_row_to_row(c, source, target) with valid indices
\* replaces the target row with (c * source.normal_vector +
\* target.normal_vector, c * source.constant_term + target.constant_term) and
\* leaves every other row unchanged.
C9_AddMultiple ==
  (call.op = "add_multiple_times_row_to_row"
     /\ InRange(call.i) /\ InRange(call.j)) =>
    /\ outcome = "none"
    /\ Len(planes) = Len(before)
    /\ planes[call.j + 1].normal_vector
         = [m \in 1..Len(before[call.j + 1].normal_vector) |->
              DecAdd(DecMul(call.c, before[call.i + 1].normal_vector[m]),
                     before[call.j + 1].normal_vector[m])]
    /\ planes[call.j + 1].constant_term
         = DecAdd(DecMul(call.c, before[call.i + 1].constant_term),
                  before[call.j + 1].constant_term)
    /\ \A k \in 1..Len(planes) : k # call.j + 1 => planes[k] = before[k]

\* C10: comparing two equations of which at least one has an undefined
\* basepoint yields a boolean and never fails on the missing basepoint.
C10_EqNeverFails ==
  (call.op = "__eq__"
     /\ (~call.x.basepoint.defined \/ ~call.y.basepoint.defined)) =>
    /\ outcome = "none"
    /\ answer \in {"True", "False"}

\* C11: an equation supports equation[j], so that for every constructed
\* system compute_triangular_form and compute_rref read their coefficients
\* and return a system with as many rows instead of raising an error.
C11_CoefficientAccess ==
  call.op \in {"compute_triangular_form", "compute_rref"} =>
    /\ outcome # "TypeError"
    /\ Len(returned) = Len(planes)

\* The pivot as the claim words it: the first coefficient whose absolute
\* value is at least 10^-10 (0-based), -1 when there is none.
AtLeastEps(x) == x.u # 0 \/ Abs(x.t) >= EpsUnits

FirstAtLeastEps(coords) ==
  IF \E k \in 1..Len(coords) : AtLeastEps(coords[k])
  THEN (CHOOSE k \in 1..Len(coords) :
          /\ AtLeastEps(coords[k])
          /\ \A m \in 1..(k - 1) : ~AtLeastEps(coords[m])) - 1
  ELSE -1

\* C12: indices_of_first_nonzero_terms_in_each_row returns, for every row,
\* the index of its first coefficient of absolute value >= 1e-10, or -1 when
\* there is none; it raises nothing and leaves every row unchanged.
C12_PivotIndices ==
  call.op = "indices_of_first_nonzero_terms_in_each_row" =>
    /\ outcome = "none"
    /\ planes = before
    /\ Len(indices) = Len(planes)
    /\ \A i \in 1..Len(planes) :
         indices[i] = FirstAtLeastEps(planes[i].normal_vector)

\* A row index Python's list accepts: -rows..rows-1.
Addressable(i) == -Len(before) <= i /\ i < Len(before)

IndexFailure == outcome = "IndexError" /\ planes = before

\* C13 as stated: every row operation, row read and row assignment called
\* with a row index outside 0..rows-1 raises IndexError and leaves all rows
\* unchanged.
C13_OutsideZeroToRows ==
  /\ (call.op \in {"swap_rows", "add_multiple_times_row_to_row"}
        /\ (~InRange(call.i) \/ ~InRange(call.j))) => IndexFailure
  /\ (call.op \in {"multiply_coefficient_and_row", "__getitem__",
                   "__setitem__"}
        /\ ~InRange(call.i)) => IndexFailure

\* C13: every row operation and every row read called with a row index
\* outside -rows..rows-1, and every assignment of an equation of the system's
\* dimension at such an index, raises IndexError and leaves all rows
\* unchanged; a read at an index i in -rows..-1 raises nothing and returns
\* the row at position rows + i.
C13_InvalidIndexRaises ==
  /\ (call.op \in {"swap_rows", "add_multiple_times_row_to_row"}
        /\ (~Addressable(call.i) \/ ~Addressable(call.j))) => IndexFailure
  /\ (call.op \in {"multiply_coefficient_and_row", "__getitem__"}
        /\ ~Addressable(call.i)) => IndexFailure
  /\ (call.op = "__setitem__" /\ ~Addressable(call.i)
        /\ call.x.dimension = dimension) => IndexFailure
  /\ (call.op = "__getitem__" /\ Addressable(call.i) /\ call.i < 0) =>
       /\ outcome = "none"
       /\ item = before[Len(before) + call.i + 1]
       /\ planes = before

C13_Witness ==
  /\ call.op = "add_multiple_times_row_to_row"
  /\ Addressable(call.i) /\ call.i < 0
  /\ call.j = Len(before)
  /\ Len(before) >= 2
  /\ outcome = "IndexError"
  /\ planes = before

\* The coefficient of row k (0-based) of the rows the call found, at column
\* col (0-based).
Coefficient(k, col) == before[k + 1].normal_vector[col + 1]

InColumns(col) == 0 <= col /\ col < dimension

\* The rows below row (0-based) whose coefficient at col is not near zero.
CandidatesBelow(row, col) ==
  { k \in (row + 1)..(Len(before) - 1) : ~is_near_zero(Coefficient(k, col)) }

\* C14: when the coefficient at row i and column j is near zero, the swap
\* step of compute_triangular_form, swap_with_row_below(i, j), exchanges row
\* i with the row of the smallest index k > i whose coefficient in column j
\* is not near zero and reports a swap; when there is no such row it changes
\* no row and reports none, so that the column cursor advances and row i is
\* retried.
C14_SwapWithNearestBelow ==
  (call.op = "swap_with_row_below" /\ InRange(call.i) /\ InColumns(call.j)
     /\ is_near_zero(Coefficient(call.i, call.j))) =>
    /\ outcome = "none"
    /\ LET below == CandidatesBelow(call.i, call.j)
       IN  IF below = {}
           THEN planes = before /\ answer = "False"
           ELSE /\ answer = "True"
                /\ LET k == CHOOSE m \in below : \A o \in below : m <= o
                   IN  planes = Exchanged(before, call.i + 1, k + 1)

\* C15: the elimination step of compute_triangular_form,
\* clear_coefficients_below(i, j) at a pivot coefficient beta that is not
\* near zero, leaves row i and all rows above it unchanged and adds
\* (-gamma/beta) times row i to each row k > i, gamma being row k's
\* coefficient in column j (stated without the division:
\* beta * new_k = beta * old_k - gamma * row_i); no row is scaled.
C15_ClearBelowAddsMultiples ==
  (call.op = "clear_coefficients_below" /\ InRange(call.i)
     /\ InColumns(call.j) /\ ~is_near_zero(Coefficient(call.i, call.j))) =>
    /\ outcome = "none"
    /\ Len(planes) = Len(before)
    /\ \A k \in 1..(call.i + 1) : planes[k] = before[k]
    /\ \A k \in (call.i + 1)..(Len(before) - 1) :
         LET beta == Coefficient(call.i, call.j)
             gamma == Coefficient(k, call.j)
             pivot == before[call.i + 1]
             old == before[k + 1]
             new == planes[k + 1]
         IN  /\ \A m \in 1..dimension :
                  DecMul(beta, new.normal_vector[m]) =
                    DecAdd(DecMul(beta, old.normal_vector[m]),
                           DecMul(DecMul(D(-1), gamma),
                                  pivot.normal_vector[m]))
             /\ DecMul(beta, new.constant_term) =
                  DecAdd(DecMul(beta, old.constant_term),
                         DecMul(DecMul(D(-1), gamma), pivot.constant_term))

====
